---- MODULE Spec2Model ----
(***************************************************************************)
(* Model of src/app.py: the Fusion class (VGG19-weighted image fusion),    *)
(* its grayscale test, and the procrustes point alignment.                 *)
(*                                                                         *)
(* Representation of arrays.  An array is a record with its numpy/torch    *)
(* shape and its data.  The network runs five 2x2 poolings, so a usable    *)
(* image is at least 32 pixels high and wide; the data of an image is      *)
(* therefore stored per horizontal band (band 1: the upper half of the     *)
(* rows, band 2: the lower half), the input images being constant within   *)
(* a band.  Every array operation of the code is pixel-wise, so it is      *)
(* band-wise here.                                                         *)
(*                                                                         *)
(* Numbers.  8-bit pixel values are integers 0..255.  Floating-point       *)
(* intensities are fixed-point integers in units of 1/Unit (Unit stands    *)
(* for 1.0); products with the colour-conversion coefficients are rounded  *)
(* down to that unit.  Softmax weights are exact fractions <<num, den>>.   *)
(***************************************************************************)
EXTENDS Integers, Sequences, FiniteSets, TLC

VARIABLES
    vgg_loads,    \* how many times vgg19(pretrained=True) was constructed
    fusion_objs,  \* how many Fusion objects were constructed
    self,         \* the fields of the current Fusion object
    ret,          \* outcome of the last fuse() call on it
    gray_call,    \* a call of Fusion._is_gray: its image and its outcome
    proc_call     \* a call of procrustes: its arguments and its outcome

vars == <<vgg_loads, fusion_objs, self, ret, gray_call, proc_call>>

----------------------------------------------------------------------------
\* Bounds of the model.
MaxImages == 2    \* images handed to one Fusion object
MaxSal == 1       \* saliency levels 0..MaxSal (in units of ln 2)
MaxFusions == 2   \* Fusion objects constructed in one process
MaxScale == 2     \* point sets are scaled by 1..MaxScale

Unit == 255 * 1000   \* fixed-point representation of 1.0
Bands == {1, 2}
Levels == {0, 255}

NoCall == [state |-> "none"]

Min(a, b) == IF a < b THEN a ELSE b
Max(a, b) == IF a > b THEN a ELSE b

RECURSIVE Pow2(_)
Pow2(k) == IF k = 0 THEN 1 ELSE 2 * Pow2(k - 1)

RECURSIVE SumSeq(_)
SumSeq(s) == IF s = <<>> THEN 0 ELSE Head(s) + SumSeq(Tail(s))

----------------------------------------------------------------------------
\* Images: numpy arrays of shape (h, w) or (h, w, c).  px[b] is the pixel of
\* band b: a scalar for a 2-D array, a tuple of c channel values otherwise.

ndim(a) == Len(a.shape)

Image2D(h, w, v) == [shape |-> <<h, w>>, px |-> v]
Image3D(h, w, c, v) == [shape |-> <<h, w, c>>, px |-> v]

\* img[:, :, k] (k counted from 0): raises IndexError when k is out of range.
ChannelInRange(img, k) == k < img.shape[3]
Channel(img, k) == [b \in Bands |-> img.px[b][k + 1]]

\* Fusion._is_gray, lines 206-217.  [raised, value].
_is_gray(img) ==
    IF ndim(img) < 3 THEN [raised |-> "none", value |-> TRUE]
    ELSE IF img.shape[3] = 1 THEN [raised |-> "none", value |-> TRUE]
    ELSE IF ~(ChannelInRange(img, 0) /\ ChannelInRange(img, 1) /\ ChannelInRange(img, 2))
         THEN [raised |-> "IndexError", value |-> FALSE]
    ELSE LET b == Channel(img, 0)
             g == Channel(img, 1)
             r == Channel(img, 2)
         IN [raised |-> "none",
             value |-> (\A k \in Bands : b[k] = g[k]) /\ (\A k \in Bands : b[k] = r[k])]

----------------------------------------------------------------------------
\* Floating-point arrays of the fusion: same records, values in 1/Unit.

\* img / 255. (line 142) and img.astype(float32) / 255. (line 196)
Div255(img) ==
    IF ndim(img) = 2
    THEN [shape |-> img.shape, px |-> [b \in Bands |-> img.px[b] * (Unit \div 255)]]
    ELSE [shape |-> img.shape,
          px |-> [b \in Bands |-> [k \in 1..img.shape[3] |-> img.px[b][k] * (Unit \div 255)]]]

\* cv2.cvtColor(., COLOR_RGB2YCrCb) on a float image: Y = .299R + .587G + .114B,
\* Cr = (R - Y) * .713 + .5, Cb = (B - Y) * .564 + .5; 3 or 4 channels accepted.
YCrCbPixel(p) ==
    LET Y == (299 * p[1] + 587 * p[2] + 114 * p[3]) \div 1000
    IN <<Y, ((p[1] - Y) * 713) \div 1000 + Unit \div 2,
            ((p[3] - Y) * 564) \div 1000 + Unit \div 2>>

\* cv2.cvtColor(., COLOR_YCrCb2RGB): R = Y + 1.403(Cr - .5),
\* G = Y - .714(Cr - .5) - .344(Cb - .5), B = Y + 1.773(Cb - .5).
RGBPixel(p) ==
    LET cr == p[2] - Unit \div 2
        cb == p[3] - Unit \div 2
    IN <<p[1] + (1403 * cr) \div 1000,
         p[1] - (714 * cr + 344 * cb) \div 1000,
         p[1] + (1773 * cb) \div 1000>>

\* cv2.cvtColor(f, cv2.COLOR_RGB2YCrCb), line 197; [raised, arr].
CvtRGB2YCrCb(f) ==
    IF f.shape[3] \notin {3, 4}
    THEN [raised |-> "cv2.error", arr |-> f]
    ELSE [raised |-> "none",
          arr |-> [shape |-> <<f.shape[1], f.shape[2], 3>>,
                   px |-> [b \in Bands |-> YCrCbPixel(f.px[b])]]]

\* Fusion._RGB_to_YCbCr, lines 192-197.
_RGB_to_YCbCr(img_RGB) == CvtRGB2YCrCb(Div255(img_RGB))

\* Fusion._YCbCr_to_RGB, lines 199-204.
_YCbCr_to_RGB(img_YCbCr) ==
    [shape |-> img_YCbCr.shape, px |-> [b \in Bands |-> RGBPixel(img_YCbCr.px[b])]]

\* np.clip(a, 0, 1) on an (h, w, 3) array
Clip01(a) ==
    [shape |-> a.shape,
     px |-> [b \in Bands |-> [k \in 1..a.shape[3] |-> Max(0, Min(Unit, a.px[b][k]))]]]

\* (a * 255).astype(np.uint8): truncation, then the 8-bit width
ToUint8Value(x) == ((x * 255) \div Unit) % 256
ToUint8(a) ==
    IF ndim(a) = 2
    THEN [shape |-> a.shape, px |-> [b \in Bands |-> ToUint8Value(a.px[b])]]
    ELSE [shape |-> a.shape,
          px |-> [b \in Bands |-> [k \in 1..a.shape[3] |-> ToUint8Value(a.px[b][k])]]]

\* The -1 placeholders of lines 135-136.
Placeholder == [shape |-> <<>>, px |-> -1]

\* Lines 137-142, the conversion loop of fuse.  st is [raised, norm, ycc]:
\* what was raised so far and the two lists of the object.
\* lines 139-140, y being the converted image
ConvertColor(idx, st, y) ==
    IF y.raised # "none" THEN [st EXCEPT !.raised = y.raised]
    ELSE [st EXCEPT !.norm[idx] = [shape |-> SubSeq(y.arr.shape, 1, 2),
                                   px |-> [b \in Bands |-> y.arr.px[b][1]]],
                    !.ycc[idx] = y.arr]

\* lines 138-142, g being the outcome of _is_gray
ConvertOne(imgs, idx, st, g) ==
    IF g.raised # "none" THEN [st EXCEPT !.raised = g.raised]
    ELSE IF ~g.value THEN ConvertColor(idx, st, _RGB_to_YCbCr(imgs[idx]))
    ELSE [st EXCEPT !.norm[idx] = Div255(imgs[idx])]

\* one iteration; nothing runs once something was raised
ConvertStep(imgs, idx, st) ==
    IF st.raised # "none" THEN st ELSE ConvertOne(imgs, idx, st, _is_gray(imgs[idx]))

\* the state after the first n iterations
RECURSIVE ConvertLoop(_, _)
ConvertLoop(imgs, n) ==
    IF n = 0
    THEN [raised |-> "none", norm |-> [i \in 1..Len(imgs) |-> Placeholder],
          ycc |-> [i \in 1..Len(imgs) |-> Placeholder]]
    ELSE ConvertStep(imgs, n, ConvertLoop(imgs, n - 1))

\* Tensors: shape (1, C, H, W); data[k] is the plane of channel k, by band.
\* Lines 233-237: one normalized image to a tensor.
ToTensor(image) ==
    IF ndim(image) = 2
    THEN [shape |-> <<1, 3, image.shape[1], image.shape[2]>>,
          data |-> [k \in 1..3 |-> image.px]]
    ELSE [shape |-> <<1, image.shape[3], image.shape[1], image.shape[2]>>,
          data |-> [k \in 1..image.shape[3] |-> [b \in Bands |-> image.px[b][k]]]]

\* Fusion._tranfer_to_tensor, lines 227-241.
_tranfer_to_tensor(normalized_images) ==
    [i \in 1..Len(normalized_images) |-> ToTensor(normalized_images[i])]

----------------------------------------------------------------------------
\* The feature extractor and the fusion proper.

\* Fractions <<num, den>>.
RatAdd(p, q) == <<p[1] * q[2] + q[1] * p[2], p[2] * q[2]>>
RatScale(x, q) == <<x * q[1], q[2]>>
RatFloor(q) == q[1] \div q[2]

\* VGG19.forward (lines 108-114) followed by the channel sum of line 168.  The
\* layers are torchvision's vgg19: a 3-channel first convolution, and five
\* 2x2 poolings, which reject an input lower or narrower than 32.  Layer 3 is
\* a ReLU whose output has the spatial size of the input; the feature map it
\* yields is represented by the sum of its channels, s, by band, counted in
\* units of ln 2 and never negative.
SumMaps(x, s) ==
    IF x.shape[2] # 3 \/ x.shape[3] < 32 \/ x.shape[4] < 32
    THEN [raised |-> "RuntimeError", maps |-> <<>>]
    ELSE [raised |-> "none",
          maps |-> << [shape |-> <<1, 1, x.shape[3], x.shape[4]>>, data |-> <<s>>] >>]

\* Lines 163-169, the sum maps of every image.  st is [raised, maps].
SumMapsOne(st, m) ==
    IF m.raised # "none" THEN [st EXCEPT !.raised = m.raised]
    ELSE [st EXCEPT !.maps = Append(st.maps, m.maps)]

SumMapsStep(tensors, net, idx, st) ==
    IF st.raised # "none" THEN st
    ELSE SumMapsOne(st, SumMaps(tensors[idx], net[idx]))

\* the state after the first n iterations
RECURSIVE SumMapsLoop(_, _, _)
SumMapsLoop(tensors, net, n) ==
    IF n = 0 THEN [raised |-> "none", maps |-> <<>>]
    ELSE SumMapsStep(tensors, net, n, SumMapsLoop(tensors, net, n - 1))

\* torch.cat(ts, dim=1), line 173: every size but that of dim 1 must agree.
RECURSIVE CatData(_)
CatData(ts) == IF ts = <<>> THEN <<>> ELSE Head(ts).data \o CatData(Tail(ts))

TorchCat(ts) ==
    IF \E i \in 1..Len(ts) : \E d \in {1, 3, 4} : ts[i].shape[d] # ts[1].shape[d]
    THEN [raised |-> "RuntimeError", t |-> ts[1]]
    ELSE [raised |-> "none",
          t |-> [shape |-> <<1, SumSeq([i \in 1..Len(ts) |-> ts[i].shape[2]]),
                             ts[1].shape[3], ts[1].shape[4]>>,
                 data |-> CatData(ts)]]

\* F.interpolate(t, size) in its default nearest mode, lines 174-177: output
\* row r reads input row floor(r * in / out), which stays in the same half.
Interpolate(t, size) ==
    [shape |-> <<t.shape[1], t.shape[2], size[1], size[2]>>, data |-> t.data]

\* torch.exp, line 223
TorchExp(tensor) ==
    [shape |-> tensor.shape,
     data |-> [k \in 1..tensor.shape[2] |-> [b \in Bands |-> Pow2(tensor.data[k][b])]]]

\* Faulty variant of DivideBySum: the sum taken along the rows (dim=2), not across the
\* images.
DivideBySumOverRows(e) ==
    [shape |-> e.shape,
     data |-> [k \in 1..e.shape[2] |-> [b \in Bands |->
                 <<e.data[k][b], SumSeq([j \in Bands |-> e.data[k][j]])>>]]]

\* tensor / tensor.sum(dim=1, keepdim=True), line 224
DivideBySum(e) ==
    [shape |-> e.shape,
     data |-> [k \in 1..e.shape[2] |-> [b \in Bands |->
                 <<e.data[k][b], SumSeq([j \in 1..e.shape[2] |-> e.data[j][b]])>>]]]

\* Fusion._softmax, lines 219-225.
_softmax(tensor) == DivideBySum(TorchExp(tensor))

Zeros(shape) == [shape |-> shape, data |-> [k \in 1..shape[2] |-> [b \in Bands |-> <<0, 1>>]]]

\* line 180: acc += tensor_img * weights[:, idx]
Accumulate(acc, tensor_img, w) ==
    [shape |-> acc.shape,
     data |-> [k \in 1..acc.shape[2] |-> [b \in Bands |->
                 RatAdd(acc.data[k][b], RatScale(tensor_img.data[k][b], w[b]))]]]

\* Faulty variant of WeightedSum: the accumulation skips the first image.
RECURSIVE WeightedSumSkipFirst(_, _, _)
WeightedSumSkipFirst(tensors, weights, n) ==
    IF n <= 1 THEN Zeros(tensors[1].shape)
    ELSE Accumulate(WeightedSumSkipFirst(tensors, weights, n - 1), tensors[n],
                    weights.data[n])

\* Lines 178-180: zeros, then the accumulation over the first n images.
RECURSIVE WeightedSum(_, _, _)
WeightedSum(tensors, weights, n) ==
    IF n = 0 THEN Zeros(tensors[1].shape)
    ELSE Accumulate(WeightedSum(tensors, weights, n - 1), tensors[n], weights.data[n])

\* torch.max(a, b), line 184
TorchMax(x, y) ==
    [shape |-> x.shape,
     data |-> [k \in 1..x.shape[2] |-> [b \in Bands |->
                 IF x.data[k][b][1] * y.data[k][b][2] >= y.data[k][b][1] * x.data[k][b][2]
                 THEN x.data[k][b] ELSE y.data[k][b]]]]

\* Lines 172-184, one pass per tap depth.  st is [raised, fusion, weights]:
\* max_fusion and, for inspection, the weights of every depth.
\* lines 178-184
DepthFusion(d, st, weights, current_fusion) ==
    [st EXCEPT !.fusion = IF d = 1 THEN current_fusion
                          ELSE TorchMax(st.fusion, current_fusion),
               !.weights = Append(st.weights, weights)]

\* lines 174-180
DepthWeights(tensors, d, st, weights) ==
    DepthFusion(d, st, weights, WeightedSum(tensors, weights, Len(tensors)))

DepthFeatures(tensors, d, st, features, size) ==
    IF features.raised # "none" THEN [st EXCEPT !.raised = features.raised]
    ELSE DepthWeights(tensors, d, st,
                      Interpolate(_softmax(Interpolate(features.t, size)), size))

DepthStep(tensors, imgs_sum_maps, d, st) ==
    IF st.raised # "none" THEN st
    ELSE DepthFeatures(tensors, d, st,
                       TorchCat([i \in 1..Len(imgs_sum_maps) |-> imgs_sum_maps[i][d]]),
                       SubSeq(tensors[1].shape, 3, 4))

\* the state after the first n depths
RECURSIVE DepthLoop(_, _, _)
DepthLoop(tensors, imgs_sum_maps, n) ==
    IF n = 0 THEN [raised |-> "none", fusion |-> Zeros(tensors[1].shape), weights |-> <<>>]
    ELSE DepthStep(tensors, imgs_sum_maps, n, DepthLoop(tensors, imgs_sum_maps, n - 1))

\* max_fusion.cpu().numpy(), line 186: the fractions as floating-point values
ToNumpy(t) ==
    [shape |-> t.shape,
     data |-> [k \in 1..t.shape[2] |-> [b \in Bands |-> RatFloor(t.data[k][b])]]]

\* np.squeeze and the transpose of lines 186-188
Squeeze(shape) == SelectSeq(shape, LAMBDA n : n # 1)

Transposed(sq, data) ==
    IF Len(sq) = 3
    THEN [shape |-> <<sq[2], sq[3], sq[1]>>,
          px |-> [b \in Bands |-> [k \in 1..sq[1] |-> data[k][b]]]]
    ELSE [shape |-> sq, px |-> data]

SqueezeTranspose(a) == Transposed(Squeeze(a.shape), a.data)

FuseFailed(e) == [raised |-> e, output |-> Placeholder, weights |-> <<>>]

\* lines 186-189
FuseOutput(r) ==
    IF r.raised # "none" THEN FuseFailed(r.raised)
    ELSE [raised |-> "none", weights |-> r.weights,
          output |-> SqueezeTranspose(ToNumpy(r.fusion))]

\* lines 171-184
FuseSums(tensors, sums) ==
    IF sums.raised # "none" THEN FuseFailed(sums.raised)
    ELSE FuseOutput(DepthLoop(tensors, sums.maps, Len(sums.maps[1])))

\* Fusion._fuse, lines 157-189; [raised, output, weights].  net[i] is the
\* network's response to tensor i.
_fuse(tensors, net) == FuseSums(tensors, SumMapsLoop(tensors, net, Len(tensors)))

\* numpy's rule for a[...] = v: v's extra leading dimensions must be 1, the
\* others must equal the target's or be 1.
RECURSIVE StripOnes(_, _)
StripOnes(src, n) ==
    IF Len(src) > n /\ Head(src) = 1 THEN StripOnes(Tail(src), n) ELSE src

CanAssign(src, dst) ==
    LET s == StripOnes(src, Len(dst)) IN
    /\ Len(s) <= Len(dst)
    /\ \A i \in 1..Len(s) :
          s[i] = 1 \/ s[i] = dst[Len(dst) - Len(s) + i]

\* Lines 148-152, the reconstruction loop.  st is [raised, fused_img, ycc,
\* done]: done lists the images reconstructed so far.
\* lines 150-152, y being the image's YCrCb array with the luminance replaced
ReconOne(idx, st, y) ==
    [st EXCEPT !.fused_img = Clip01(_YCbCr_to_RGB(y)),
               !.ycc[idx] = y,
               !.done = Append(st.done, idx)]

ReconStep(imgs, idx, st) ==
    IF st.raised # "none" THEN st
    ELSE IF _is_gray(imgs[idx]).value THEN st
    ELSE IF ~CanAssign(st.fused_img.shape, SubSeq(st.ycc[idx].shape, 1, 2))
    THEN [st EXCEPT !.raised = "ValueError"]
    ELSE ReconOne(idx, st,
                  [shape |-> st.ycc[idx].shape,
                   px |-> [b \in Bands |->
                             [st.ycc[idx].px[b] EXCEPT ![1] = st.fused_img.px[b]]]])

\* the state after the first n iterations
RECURSIVE ReconLoop(_, _, _, _)
ReconLoop(imgs, fused_img, ycc, n) ==
    IF n = 0 THEN [raised |-> "none", fused_img |-> fused_img, ycc |-> ycc, done |-> <<>>]
    ELSE ReconStep(imgs, n, ReconLoop(imgs, fused_img, ycc, n - 1))

\* The outcome of fuse: what was raised, the returned value, the fields of
\* the object as the call leaves them and, for inspection, its locals.
Outcome(raised, value, norm, ycc, tensors, weights, fused_lum, done) ==
    [raised |-> raised, value |-> value, normalized_images |-> norm,
     YCbCr_images |-> ycc, images_to_tensors |-> tensors, weights |-> weights,
     fused_lum |-> fused_lum, done |-> done]

\* lines 148-154
FuseReturn(conv, tensors, f, fused_img, rec) ==
    Outcome(rec.raised,
            IF rec.raised # "none" THEN Placeholder ELSE ToUint8(rec.fused_img),
            conv.norm, rec.ycc, tensors, f.weights, fused_img, rec.done)

FuseReconstruct(input_images, conv, tensors, f, fused_img) ==
    FuseReturn(conv, tensors, f, fused_img,
               ReconLoop(input_images, fused_img, conv.ycc, Len(input_images)))

\* line 146: the [:, :, 0] of the fused array
FuseFused(input_images, conv, tensors, f) ==
    IF f.raised # "none"
    THEN Outcome(f.raised, Placeholder, conv.norm, conv.ycc, tensors, <<>>, Placeholder, <<>>)
    ELSE IF ndim(f.output) < 3
    THEN Outcome("IndexError", Placeholder, conv.norm, conv.ycc, tensors, f.weights,
                 Placeholder, <<>>)
    ELSE FuseReconstruct(input_images, conv, tensors, f,
                         [shape |-> SubSeq(f.output.shape, 1, 2),
                          px |-> [b \in Bands |-> f.output.px[b][1]]])

\* lines 144-146
FuseTensors(input_images, net, conv, tensors) ==
    FuseFused(input_images, conv, tensors, _fuse(tensors, net))

FuseConverted(input_images, net, conv) ==
    IF conv.raised # "none"
    THEN Outcome(conv.raised, Placeholder, conv.norm, conv.ycc, <<>>, <<>>, Placeholder, <<>>)
    ELSE FuseTensors(input_images, net, conv, _tranfer_to_tensor(conv.norm))

\* lines 135-142
Converted(input_images) == ConvertLoop(input_images, Len(input_images))

\* Fusion.fuse, lines 130-154.
fuse(input_images, net) == FuseConverted(input_images, net, Converted(input_images))

----------------------------------------------------------------------------
\* The process: Fusion objects are constructed and fused.

\* Images handed to Fusion objects: 2-D grayscale, single-channel H x W x 1,
\* 3-channel with equal channels, 3-channel colour, and one of another size.
FusionInputs ==
    { Image2D(32, 32, <<0, 255>>),
      Image2D(64, 32, <<0, 255>>),
      Image3D(32, 32, 1, << <<51>>, <<204>> >>),
      Image3D(32, 32, 3, << <<102, 102, 102>>, <<255, 255, 255>> >>),
      Image3D(32, 32, 3, << <<255, 0, 0>>, <<0, 0, 255>> >>),
      Image3D(32, 32, 3, << <<0, 255, 0>>, <<51, 51, 51>> >>) }

\* The responses the network may give to the tensors of one call: any levels
\* 0..MaxSal in each band, equal tensors getting equal responses (inference
\* is deterministic, line 161, and the weights are fixed).
SameForSame(t) ==
    { net \in [1..Len(t) -> [Bands -> 0..MaxSal]] :
         \A i, j \in 1..Len(t) : t[i] = t[j] => net[i] = net[j] }

NoResponse(n) == [i \in 1..n |-> [b \in Bands |-> 0]]

\* A call that raises before line 174 never reads the values of the
\* responses: there one response stands for all of them.
ResponsesTo(conv, n) ==
    IF conv.raised # "none" THEN {NoResponse(n)}
    ELSE IF _fuse(_tranfer_to_tensor(conv.norm), NoResponse(n)).raised # "none"
    THEN {NoResponse(n)}
    ELSE SameForSame(_tranfer_to_tensor(conv.norm))

Responses(input_images) == ResponsesTo(Converted(input_images), Len(input_images))

Init ==
    /\ vgg_loads = 0 /\ fusion_objs = 0
    /\ self = NoCall /\ ret = NoCall
    /\ gray_call = NoCall /\ proc_call = NoCall

\* The lists of images a caller may hand to a Fusion object.
InputLists == UNION { [1..n -> FusionInputs] : n \in 1..MaxImages }

\* Fusion.__init__, lines 117-128: the object's fields; model is the
\* VGG19 instance it holds.
Constructed(input, model) ==
    [state |-> "constructed", input_images |-> input, model |-> model,
     normalized_images |-> <<>>, YCbCr_images |-> <<>>, images_to_tensors |-> <<>>]

\* Fusion.__init__, lines 117-128, with VGG19.__init__, lines 103-106: every
\* Fusion object loads the pretrained network anew.
NewFusion ==
    /\ fusion_objs < MaxFusions
    /\ \E input \in InputLists : self' = Constructed(input, vgg_loads + 1)
    /\ vgg_loads' = vgg_loads + 1
    /\ fusion_objs' = fusion_objs + 1
    /\ ret' = NoCall
    /\ UNCHANGED <<gray_call, proc_call>>

\* The object and the outcome as a fuse call with outcome r leaves them.
Fused(r) ==
    /\ self' = [self EXCEPT !.state = "fused",
                            !.normalized_images = r.normalized_images,
                            !.YCbCr_images = r.YCbCr_images,
                            !.images_to_tensors = r.images_to_tensors]
    /\ ret' = [state |-> "returned", raised |-> r.raised, value |-> r.value,
               weights |-> r.weights, fused_lum |-> r.fused_lum, done |-> r.done]

\* Fusion.fuse on the current object (an object is fused once).
Fuse ==
    /\ self.state = "constructed"
    /\ \E net \in Responses(self.input_images) : Fused(fuse(self.input_images, net))
    /\ UNCHANGED <<vgg_loads, fusion_objs, gray_call, proc_call>>

Next == NewFusion \/ Fuse

Spec == Init /\ [][Next]_vars

\* One fuse call taken alone: a Fusion object was constructed on any list of
\* images, and is fused.
FuseInit ==
    /\ vgg_loads = 1 /\ fusion_objs = 1
    /\ self \in { Constructed(input, 1) : input \in InputLists }
    /\ ret = NoCall /\ gray_call = NoCall /\ proc_call = NoCall

FuseNext == Fuse

SpecFuse == FuseInit /\ [][FuseNext]_vars

----------------------------------------------------------------------------
\* Properties of fuse.

Returned == ret.state = "returned"
IsPlaceholder(a) == a.shape = <<>>
Spatial(img) == SubSeq(img.shape, 1, 2)
SameSize(imgs) == \A i \in 1..Len(imgs) : Spatial(imgs[i]) = Spatial(imgs[1])
Identical(imgs) == \A i \in 1..Len(imgs) : imgs[i] = imgs[1]
IsColor(img) == ~_is_gray(img).value
ColorIndices(imgs) == SelectSeq([i \in 1..Len(imgs) |-> i], LAMBDA i : IsColor(imgs[i]))
\* 2-D arrays and 3-channel arrays of at least 32 x 32: what the network takes
Plain(img) ==
    /\ ndim(img) = 2 \/ img.shape[3] = 3
    /\ img.shape[1] >= 32 /\ img.shape[2] >= 32

\* The image's own chrominance pair under the luminance lum, back in RGB,
\* clipped and scaled to 8 bits.
OwnChroma(y, lum) ==
    ToUint8(Clip01(_YCbCr_to_RGB(
        [shape |-> y.shape,
         px |-> [b \in Bands |-> <<lum.px[b], y.px[b][2], y.px[b][3]>>]])))

LastWins(imgs, lum, colors) ==
    IF colors = <<>> THEN ToUint8(lum)
    ELSE OwnChroma(_RGB_to_YCbCr(imgs[colors[Len(colors)]]).arr, lum)

\* C1: last-wins reconstruction: a fuse call on equally sized images completes,
\* reconstructs every colour image in input order and returns the
\* reconstruction of the last colour image (the scaled fused luminance when
\* none is colour), for any number of colour images.  Stated for the arrays
\* the network takes.
C1_LastColorWins ==
    (Returned /\ SameSize(self.input_images)
       /\ \A i \in 1..Len(self.input_images) : Plain(self.input_images[i]))
    => /\ ret.raised = "none"
       /\ ret.done = ColorIndices(self.input_images)
       /\ ret.value = LastWins(self.input_images, ret.fused_lum, ret.done)

RECURSIVE RatSum(_)
RatSum(qs) == IF qs = <<>> THEN <<0, 1>> ELSE RatAdd(Head(qs), RatSum(Tail(qs)))

\* w is a weight map over n images: positive weights that sum to 1 in every
\* band, over a denominator that is not zero
IsWeightMap(w, n) ==
    /\ w.shape[2] = n
    /\ \A b \in Bands :
          /\ \A k \in 1..n : w.data[k][b][2] # 0 /\ w.data[k][b][1] * w.data[k][b][2] > 0
          /\ RatSum([k \in 1..n |-> w.data[k][b]])[1] = RatSum([k \in 1..n |-> w.data[k][b]])[2]

\* C2: at every tap depth and every pixel the N weights that multiply the
\* image tensors are strictly positive and sum to 1, the softmax denominator
\* being never zero.
C2_WeightsSumToOne ==
    Returned => \A d \in 1..Len(ret.weights) :
                   IsWeightMap(ret.weights[d], Len(self.input_images))

\* Two images were fused with different weights in some band.
C2_Witness ==
    /\ Returned /\ Len(self.input_images) >= 2 /\ Len(ret.weights) = 1
    /\ \E b \in Bands : ret.weights[1].data[1][b][1] # ret.weights[1].data[2][b][1]

\* C3: images of different spatial sizes make fuse fail with a
\* DimensionMismatchError.
C3_DimensionMismatchError ==
    (Returned /\ ~SameSize(self.input_images)) => ret.raised = "DimensionMismatchError"

Luminance(image, b) == IF ndim(image) = 2 THEN image.px[b] ELSE image.px[b][1]

\* C5: when the N images of a call are identical, every image gets weight
\* 1/N at every pixel and the fused luminance is the normalized input
\* luminance.
C5_IdenticalImages ==
    (Returned /\ Identical(self.input_images) /\ ~IsPlaceholder(ret.fused_lum))
    => /\ \A d \in 1..Len(ret.weights) : \A k \in 1..Len(self.input_images) :
             \A b \in Bands :
                Len(self.input_images) * ret.weights[d].data[k][b][1]
                   = ret.weights[d].data[k][b][2]
       /\ \A b \in Bands :
             ret.fused_lum.px[b] = Luminance(self.normalized_images[1], b)

\* Several identical images with a luminance that is not zero were fused.
C5_Witness ==
    /\ Returned /\ Len(self.input_images) >= 2 /\ Identical(self.input_images)
    /\ ret.raised = "none" /\ ~IsPlaceholder(ret.fused_lum) /\ Len(ret.weights) = 1
    /\ ret.fused_lum.px[1] > 0 /\ ret.fused_lum.px[2] > 0

\* C9: every input image with 1 or 3 channels (2-D, H x W x 1, H x W x 3)
\* reaches the feature extractor as a tensor of shape (1, 3, H, W).
C9_TensorShape ==
    (Returned /\ self.images_to_tensors # <<>>)
    => \A i \in 1..Len(self.input_images) :
          (ndim(self.input_images[i]) = 2 \/ self.input_images[i].shape[3] \in {1, 3})
          => self.images_to_tensors[i].shape
                = <<1, 3, self.input_images[i].shape[1], self.input_images[i].shape[2]>>

\* C10: over any sequence of Fusion objects and fuse calls the pretrained
\* network is constructed at most once, every object holding that instance.
C10_LoadedOnce ==
    /\ vgg_loads <= 1
    /\ self.state # "none" => self.model = 1

----------------------------------------------------------------------------
\* procrustes, lines 32-100.  A matrix is the sequence of its rows.  The
\* centred point sets are kept multiplied by their number of points, so that
\* they stay integers: X0n = n * X0, ssXn = n * n * ssX, An = n * ny * (X0' Y0
\* before the division by the norms).  Dividing by the norms scales the
\* singular values and leaves the singular vectors alone.

Rows(M) == Len(M)
Cols(M) == Len(M[1])
Transpose(M) == [j \in 1..Cols(M) |-> [i \in 1..Rows(M) |-> M[i][j]]]
MatMul(P, Q) ==
    [i \in 1..Rows(P) |-> [j \in 1..Cols(Q) |->
        SumSeq([k \in 1..Cols(P) |-> P[i][k] * Q[k][j]])]]
Det2(M) == M[1][1] * M[2][2] - M[1][2] * M[2][1]
Diag(s) == [i \in 1..Len(s) |-> [j \in 1..Len(s) |-> IF i = j THEN s[i] ELSE 0]]
Abs(x) == IF x < 0 THEN -x ELSE x

\* X.sum(0), and n * (X - X.mean(0)), lines 36-40
ColSum(M) == [j \in 1..Cols(M) |-> SumSeq([i \in 1..Rows(M) |-> M[i][j]])]
Centred(M) ==
    [i \in 1..Rows(M) |-> [j \in 1..Cols(M) |-> Rows(M) * M[i][j] - ColSum(M)[j]]]
\* (X0 ** 2.).sum(), lines 42-43, times n * n
SumSquares(M) == SumSeq([i \in 1..Rows(M) |-> SumSeq([j \in 1..Cols(M) |-> M[i][j] * M[i][j]])])

\* np.linalg.svd(A, full_matrices=False), line 58, for a 2 x 2 matrix whose
\* singular vectors are coordinate axes: every <<U, s, Vt>> with orthogonal
\* U and Vt, s >= 0 in descending order and U diag(s) Vt = A.  Where the
\* decomposition is not unique the library may return any of them.
Orthogonal2 ==
    { M \in { <<r1, r2>> : r1 \in {<<1, 0>>, <<-1, 0>>, <<0, 1>>, <<0, -1>>},
                           r2 \in {<<1, 0>>, <<-1, 0>>, <<0, 1>>, <<0, -1>>} } :
         MatMul(M, Transpose(M)) = << <<1, 0>>, <<0, 1>> >> }
SingularValues(A) ==
    { s \in [1..2 -> {0} \cup { Abs(A[i][j]) : i \in 1..2, j \in 1..2 }] : s[1] >= s[2] }
SVD(A) ==
    { usv \in Orthogonal2 \X SingularValues(A) \X Orthogonal2 :
         MatMul(MatMul(usv[1], Diag(usv[2])), usv[3]) = A }

\* V[:, -1] *= -1 and s[-1] *= -1, lines 69-70
NegateLastColumn(V) ==
    [i \in 1..Rows(V) |-> [j \in 1..Cols(V) |-> IF j = Cols(V) THEN -V[i][j] ELSE V[i][j]]]
NegateLast(s) == [i \in 1..Len(s) |-> IF i = Len(s) THEN -s[i] ELSE s[i]]

\* Faulty variant of HaveReflection: the comparison turned around.
HaveReflectionPositive(T) == Det2(T) > 0

\* line 65: does the current solution use a reflection?
HaveReflection(T) == Det2(T) < 0

\* lines 62-71: [V, s, T] after the reflection policy; reflection is "best",
\* "True" or "False".
ForceReflection(U, s, V, reflection) ==
    IF reflection # "best"
       /\ (reflection = "True") # HaveReflection(MatMul(V, Transpose(U)))
    THEN [V |-> NegateLastColumn(V), s |-> NegateLast(s),
          T |-> MatMul(NegateLastColumn(V), Transpose(U))]
    ELSE [V |-> V, s |-> s, T |-> MatMul(V, Transpose(U))]

\* lines 73-100: the returned triple, from the values of lines 36-47 (sums
\* cX, cY, centred sets X0n, Y0n, sums of squares ssXn, ssYn), the product
\* Y0n T and the sum of the singular values after the policy.  The singular
\* values sn are those of An, so traceTA = SumSeq(sn) / sqrt(ssXn * ssYn);
\* fractions are <<num, den>>, Z and the translation are given by their
\* numerators over the common denominator Zden.
Returned3(n, m, my, cX, cY, ssXn, ssYn, scaling, usv, p, Y0T, cYT, tr) ==
    [raised |-> "none", finite |-> TRUE, divided_by_zero |-> FALSE,
     svd |-> usv, V |-> p.V, s |-> p.s,
     d |-> IF scaling
           THEN <<ssXn * ssYn - tr * tr, ssXn * ssYn>>
           ELSE <<ssXn + ssYn - 2 * tr, ssXn>>,
     Zden |-> IF scaling THEN n * ssYn ELSE n,
     Z |-> IF scaling
           THEN [i \in 1..n |-> [j \in 1..m |-> tr * Y0T[i][j] + ssYn * cX[j]]]
           ELSE [i \in 1..n |-> [j \in 1..m |-> Y0T[i][j] + cX[j]]],
     tform |->
       [rotation |-> IF my < m THEN SubSeq(p.T, 1, my) ELSE p.T,
        scale |-> IF scaling THEN <<tr, ssYn>> ELSE <<1, 1>>,
        translation |->
           IF scaling
           THEN [j \in 1..m |-> ssYn * cX[j] - tr * cYT[1][j]]
           ELSE [j \in 1..m |-> cX[j] - cYT[1][j]]]]

\* lines 62-93 for one result of the decomposition
Solution(n, m, my, cX, cY, Y0n, ssXn, ssYn, scaling, usv, p) ==
    Returned3(n, m, my, cX, cY, ssXn, ssYn, scaling, usv, p,
              MatMul(Y0n, p.T), MatMul(<<cY>>, p.T), SumSeq(p.s))

Raised(e, z) == [raised |-> e, finite |-> TRUE, divided_by_zero |-> z]

\* lines 49-93.
\*   line 54: np.zeros(n, m-my) takes m-my for a dtype and raises TypeError;
\*   line 57: np.dot needs as many rows in Y0 as in X0;
\*   lines 50-51: a zero norm makes X0 or Y0 all NaN (numpy divides without
\*   raising); svd of a NaN matrix raises LinAlgError or, with other LAPACK
\*   builds, returns NaN, which then fills the whole result.
Normalised(n, ny, m, my, cX, cY, X0n, Y0n, ssXn, ssYn, scaling, reflection) ==
    IF my < m
    THEN { Raised("TypeError", ssXn = 0 \/ ssYn = 0) }
    ELSE IF n # ny
    THEN { Raised("ValueError", ssXn = 0 \/ ssYn = 0) }
    ELSE IF ssXn = 0 \/ ssYn = 0
    THEN { Raised("LinAlgError", TRUE),
           [raised |-> "none", finite |-> FALSE, divided_by_zero |-> TRUE] }
    ELSE { Solution(n, m, my, cX, cY, Y0n, ssXn, ssYn, scaling, usv,
                    ForceReflection(usv[1], usv[2], Transpose(usv[3]), reflection)) :
             usv \in SVD(MatMul(Transpose(X0n), Y0n)) }

\* lines 36-47
Centring(X, Y, X0n, Y0n, scaling, reflection) ==
    Normalised(Rows(X), Rows(Y), Cols(X), Cols(Y), ColSum(X), ColSum(Y), X0n, Y0n,
               SumSquares(X0n), SumSquares(Y0n), scaling, reflection)

\* The outcomes of procrustes(X, Y, scaling, reflection): a set, for the
\* library's choices.
procrustes(X, Y, scaling, reflection) ==
    Centring(X, Y, Centred(X), Centred(Y), scaling, reflection)

\* The point sets of the calls: one point, two equal points, segments along
\* an axis, and quadrilaterals symmetric about both axes, with their mirror
\* images, scaled by 1..MaxScale; for Y also sets of 1-dimensional points.
BaseSets ==
    { << <<1, 2>> >>,
      << <<1, 1>>, <<1, 1>> >>,
      << <<0, 0>>, <<2, 0>> >>,
      << <<0, 0>>, <<0, 2>> >>,
      << <<1, 0>>, <<0, 1>>, <<-1, 0>>, <<0, -1>> >>,
      << <<-1, 0>>, <<0, 1>>, <<1, 0>>, <<0, -1>> >>,
      << <<0, 1>>, <<-1, 0>>, <<0, -1>>, <<1, 0>> >>,
      << <<2, 0>>, <<0, 1>>, <<-2, 0>>, <<0, -1>> >>,
      << <<2, 0>>, <<0, -1>>, <<-2, 0>>, <<0, 1>> >> }
BaseSets1D == { << <<0>>, <<2>> >>, << <<1>>, <<0>>, <<-1>>, <<0>> >> }
Scaled(k, M) == [i \in 1..Rows(M) |-> [j \in 1..Cols(M) |-> k * M[i][j]]]
PointSets == { Scaled(k, M) : k \in 1..MaxScale, M \in BaseSets }
PointSets1D == { Scaled(k, M) : k \in 1..MaxScale, M \in BaseSets1D }

ProcInit ==
    /\ vgg_loads = 0 /\ fusion_objs = 0
    /\ self = NoCall /\ ret = NoCall /\ gray_call = NoCall
    /\ proc_call \in { [state |-> "called", X |-> X, Y |-> Y,
                        scaling |-> sc, reflection |-> r] :
                          X \in PointSets, Y \in PointSets \cup PointSets1D,
                          sc \in BOOLEAN, r \in {"best", "True", "False"} }

ProcrustesCall ==
    /\ proc_call.state = "called"
    /\ \E out \in procrustes(proc_call.X, proc_call.Y, proc_call.scaling,
                             proc_call.reflection) :
          proc_call' = [proc_call EXCEPT !.state = "returned"] @@ [out |-> out]
    /\ UNCHANGED <<vgg_loads, fusion_objs, self, ret, gray_call>>

ProcNext == ProcrustesCall

SpecProc == ProcInit /\ [][ProcNext]_vars

----------------------------------------------------------------------------
\* Inputs of the grayscale test: every 32x32 image with 0 (2-D), 1, 2, 3 or 4
\* channels whose band pixels take their channel values in Levels.
GrayInputs ==
    { Image2D(32, 32, v) : v \in [Bands -> Levels] }
    \cup UNION { { Image3D(32, 32, c, v) : v \in [Bands -> [1..c -> Levels]] } : c \in 1..4 }

GrayInit ==
    /\ vgg_loads = 0 /\ fusion_objs = 0
    /\ self = NoCall /\ ret = NoCall /\ proc_call = NoCall
    /\ gray_call \in { [state |-> "called", img |-> i] : i \in GrayInputs }

IsGrayCall ==
    /\ gray_call.state = "called"
    /\ gray_call' = [state |-> "returned", img |-> gray_call.img,
                     out |-> _is_gray(gray_call.img)]
    /\ UNCHANGED <<vgg_loads, fusion_objs, self, ret, proc_call>>

GrayNext == IsGrayCall

SpecGray == GrayInit /\ [][GrayNext]_vars

FirstThreeEqual(img) ==
    /\ img.shape[3] >= 3
    /\ \A b \in Bands : img.px[b][1] = img.px[b][2] /\ img.px[b][1] = img.px[b][3]

\* C4: isGray is total: it returns TRUE for an array of fewer than 3
\* dimensions, for a single channel and for 3 pixel-wise identical channels,
\* and FALSE, without raising, for every other image whose first three
\* channels are not all equal.
C4_IsGrayTotal ==
    gray_call.state = "returned" =>
        LET img == gray_call.img
            out == gray_call.out
        IN /\ out.raised = "none"
           /\ (ndim(img) < 3 \/ img.shape[3] = 1
                 \/ (img.shape[3] = 3 /\ FirstThreeEqual(img))) => out.value = TRUE
           /\ (ndim(img) = 3 /\ img.shape[3] # 1 /\ ~FirstThreeEqual(img))
                 => out.value = FALSE


----------------------------------------------------------------------------
\* Claims about procrustes, under SpecProc.

ProcReturned == proc_call.state = "returned"
Degenerate(M) == Rows(M) < 2 \/ SumSquares(Centred(M)) = 0
ProcOk == ProcReturned /\ proc_call.out.raised = "none" /\ proc_call.out.finite

\* C6: a call in which either point set has fewer than two points or zero
\* variance raises DegenerateInputError, and never divides by the zero norm.
C6_DegenerateInputError ==
    ProcReturned /\ (Degenerate(proc_call.X) \/ Degenerate(proc_call.Y))
        => /\ proc_call.out.raised = "DegenerateInputError"
           /\ ~proc_call.out.divided_by_zero

\* The determinant of T = V U' for the decomposition the library returned.
SolutionDet == Det2(MatMul(Transpose(proc_call.out.svd[3]), Transpose(proc_call.out.svd[1])))
PolicyDisagrees ==
    \/ proc_call.reflection = "False" /\ SolutionDet < 0
    \/ proc_call.reflection = "True" /\ SolutionDet >= 0

\* C7: when the decomposition's T has a negative determinant although
\* reflection is false, or a non-negative one although reflection is true,
\* the last column of V and the last singular value are negated and T is
\* recomputed, so the determinant of the returned rotation has the other
\* sign; otherwise, and always with "best", V, s and T are those of the
\* decomposition.
C7_ReflectionPolicy ==
    ProcOk =>
        IF PolicyDisagrees
        THEN /\ proc_call.out.V =
                  [i \in 1..2 |-> <<proc_call.out.svd[3][1][i], -proc_call.out.svd[3][2][i]>>]
             /\ proc_call.out.s = <<proc_call.out.svd[2][1], -proc_call.out.svd[2][2]>>
             /\ proc_call.out.tform.rotation =
                  MatMul(proc_call.out.V, Transpose(proc_call.out.svd[1]))
             /\ Det2(proc_call.out.tform.rotation) = -SolutionDet
             /\ (Det2(proc_call.out.tform.rotation) < 0) = (proc_call.reflection = "True")
        ELSE /\ proc_call.out.V = Transpose(proc_call.out.svd[3])
             /\ proc_call.out.s = proc_call.out.svd[2]
             /\ proc_call.out.tform.rotation =
                  MatMul(Transpose(proc_call.out.svd[3]), Transpose(proc_call.out.svd[1]))

\* C7, witness: a mirror image was fitted with reflection false, and the
\* returned rotation is proper.
C7_Witness ==
    /\ ProcOk /\ proc_call.reflection = "False" /\ SolutionDet < 0
    /\ Det2(proc_call.out.tform.rotation) > 0
    /\ proc_call.out.svd[2][2] > 0

\* C8: when Y has fewer columns than X (and as many rows, neither set
\* degenerate), the call completes and the returned rotation has only the
\* first my rows.
C8_ZeroPadding ==
    /\ ProcReturned /\ Cols(proc_call.Y) < Cols(proc_call.X)
    /\ Rows(proc_call.Y) = Rows(proc_call.X)
    /\ ~Degenerate(proc_call.X) /\ ~Degenerate(proc_call.Y)
    => /\ proc_call.out.raised = "none"
       /\ Rows(proc_call.out.tform.rotation) = Cols(proc_call.Y)
       /\ Cols(proc_call.out.tform.rotation) = Cols(proc_call.X)

====
